---- MODULE Spec2Model ----
(***************************************************************************)
(* Model of optional_python/Optional.py: the Optional container, its three *)
(* factories, its instance operations, and the way Python dispatches a     *)
(* call of the class and a call of an instance.                            *)
(*                                                                         *)
(* The heap is the sequence of Optional instances created so far; an       *)
(* instance is identified by its index (Python's object identity, `is`).   *)
(* Every method is an operator from (heap, self, arguments) to a call      *)
(* record: the heap after the call, whether the call returned or raised,   *)
(* what it returned or raised, and how many times it invoked the callback. *)
(***************************************************************************)
EXTENDS Naturals, Sequences, FiniteSets

VARIABLES heap, result, law

vars == <<heap, result, law>>

\* ---------------------------------------------------------------- bounds
MaxVal == 2        \* the non-None Python objects are 1..MaxVal
MaxObjs == 2       \* instances the client of Spec creates at most

\* ------------------------------------------------------- Python objects
None == 0          \* the object None; it is no member of Values
Values == 1..MaxVal
PyObjects == {None} \cup Values
NoRef == None      \* a call that returns no instance; heap indices start at 1

\* ----------------------------------------------------------- exceptions
NoExc == [cls |-> "", msg |-> ""]
Exc(c, m) == [cls |-> c, msg |-> m]
CallbackError == Exc("CallbackError", "raised by the caller's callback")
NotCallableOnNone == Exc("TypeError", "callback applied to None")
CustomError == Exc("ValueError", "custom")

\* ---------------------------------------------------- callback outcomes
\* What one invocation of a caller-supplied callable yields.
Ret(v) == [kind |-> "return", val |-> v, exc |-> NoExc]
RetExc(e) == [kind |-> "return", val |-> None, exc |-> e]
Raise(e) == [kind |-> "raise", val |-> None, exc |-> e]

FnOutcomes == {Ret(v) : v \in PyObjects} \cup {Raise(CallbackError)}
PredOutcomes == {Ret(TRUE), Ret(FALSE), Raise(CallbackError)}

\* A one-argument callable is its table on the non-None objects; applied to
\* None it raises (as str.upper(None) does).
Functions == [Values -> FnOutcomes]
\* A consumer (Callable[[T], None]) returns nothing, or raises.
Consumers == [Values -> {Ret(None), Raise(CallbackError)}]
Predicates == [Values -> PredOutcomes]
\* A zero-argument callable is what its invocation yields.
Providers == FnOutcomes
NoFn == <<>>

Call(fn, x) == IF x \in DOMAIN fn THEN fn[x] ELSE Raise(NotCallableOnNone)
CallNoArgs(provider) == provider

\* -------------------------------------------------------- call records
Returns(h, v, b, r, n) ==
    [heap |-> h, kind |-> "return", val |-> v, bool |-> b, ref |-> r,
     exc |-> NoExc, origin |-> "", calls |-> n]
ReturnValue(h, v, n) == Returns(h, v, FALSE, NoRef, n)
ReturnBool(h, b) == Returns(h, None, b, NoRef, 0)
ReturnRef(h, r, n) == Returns(h, None, FALSE, r, n)
\* origin "statement": the exception object was built and handed to a raise
\* statement of the method; origin "callee": the exception came out of a call
\* or an expression the method evaluated, and propagates unchanged.
Raises(h, e, o, n) ==
    [heap |-> h, kind |-> "raise", val |-> None, bool |-> FALSE, ref |-> NoRef,
     exc |-> e, origin |-> o, calls |-> n]

\* ------------------------------------------------- construction (l.14-30)
\* Optional.__init__: binds self._obj, the only assignment to _obj in the file.
\* The new instance is the next heap index.
__init__(h, obj) == Append(h, [obj |-> obj])

\* The class statement names no metaclass, so type(Optional) is type.
Metaclass == "type"

\* type.__call__(cls, obj): allocate an instance, run __init__, return it.
type_call(h, obj) ==
    LET h2 == __init__(h, obj) IN ReturnRef(h2, Len(h2), 0)

\* The expression Optional(obj), in user code and as cls(obj) in the
\* factories. Python looks __call__ up on type(Optional), the metaclass; the
\* __call__ of the class body is found only under a metaclass that defines it.
ClassCall(h, obj) ==
    IF Metaclass = "type"
    THEN type_call(h, obj)
    ELSE Raises(h, Exc("TypeError", "Optional has no public constructor"),
                "statement", 0)

\* Optional.__call__ as written in the class body: it is what runs when an
\* INSTANCE is called, o(). Its f-string reads cls.__qualname__, which an
\* instance does not have, so the AttributeError precedes the TypeError.
__call__(h, self) ==
    Raises(h, Exc("AttributeError", "'Optional' object has no attribute '__qualname__'"),
           "callee", 0)

\* Optional._create: a plain function of the class body, callable on an
\* instance; super() has no __call__ there.
_create(h, self) ==
    Raises(h, Exc("AttributeError", "'super' object has no attribute '__call__'"),
           "callee", 0)

\* ------------------------------------------------------ queries (l.34-55)
\* get without the emptiness test.
get_unchecked(h, self) == ReturnValue(h, h[self].obj, 0)

get(h, self) ==
    IF h[self].obj = None
    THEN Raises(h, Exc("TypeError", "Optional contains no object"), "statement", 0)
    ELSE ReturnValue(h, h[self].obj, 0)

is_present(h, self) == h[self].obj # None

is_empty(h, self) == h[self].obj = None

\* ---------------------------------------------------- factories (l.136-167)
\* of without the None test.
of_unchecked(h, obj) == ClassCall(h, obj)

of(h, obj) ==
    IF obj = None
    THEN Raises(h, Exc("AttributeError", "The object provided is None, not allowed"),
                "statement", 0)
    ELSE ClassCall(h, obj)

\* of_nullable delegating to of.
of_nullable_strict(h, obj) == of(h, obj)

of_nullable(h, obj) == ClassCall(h, obj)

empty(h) == ClassCall(h, None)

\* ------------------------------------------- conditional consumer (l.57-64)
if_present(h, self, consumer) ==
    IF is_present(h, self)
    THEN LET r == Call(consumer, h[self].obj) IN
         IF r.kind = "raise"
         THEN Raises(h, r.exc, "callee", 1)
         ELSE ReturnValue(h, None, 1)
    ELSE ReturnValue(h, None, 0)

\* ------------------------------------------------------ transforms (l.66-85)
\* map applying the function before it tests for presence.
map_eager(h, self, function) ==
    LET new_obj == Call(function, h[self].obj) IN
    IF is_present(h, self)
    THEN IF new_obj.kind = "raise"
         THEN Raises(h, new_obj.exc, "callee", 1)
         ELSE [of_nullable(h, new_obj.val) EXCEPT !.calls = 1]
    ELSE [empty(h) EXCEPT !.calls = 1]

\* map wrapping self._obj instead of new_obj.
map_stale(h, self, function) ==
    IF is_present(h, self)
    THEN LET new_obj == Call(function, h[self].obj) IN
         IF new_obj.kind = "raise"
         THEN Raises(h, new_obj.exc, "callee", 1)
         ELSE [of_nullable(h, h[self].obj) EXCEPT !.calls = 1]
    ELSE empty(h)

map(h, self, function) ==
    IF is_present(h, self)
    THEN LET new_obj == Call(function, h[self].obj) IN
         IF new_obj.kind = "raise"
         THEN Raises(h, new_obj.exc, "callee", 1)
         ELSE [of_nullable(h, new_obj.val) EXCEPT !.calls = 1]
    ELSE empty(h)

\* filter returning a fresh container for a value that passes.
filter_copy(h, self, predicate) ==
    IF is_empty(h, self)
    THEN ReturnRef(h, self, 0)
    ELSE LET r == Call(predicate, h[self].obj) IN
         IF r.kind = "raise"
         THEN Raises(h, r.exc, "callee", 1)
         ELSE IF r.val
              THEN [of(h, h[self].obj) EXCEPT !.calls = 1]
              ELSE [empty(h) EXCEPT !.calls = 1]

\* filter emptying the receiver in place for a value that fails.
filter_in_place(h, self, predicate) ==
    IF is_empty(h, self)
    THEN ReturnRef(h, self, 0)
    ELSE LET r == Call(predicate, h[self].obj) IN
         IF r.kind = "raise"
         THEN Raises(h, r.exc, "callee", 1)
         ELSE IF r.val
              THEN ReturnRef(h, self, 1)
              ELSE ReturnRef([h EXCEPT ![self].obj = None], self, 1)

\* `self.is_empty() or predicate(self._obj)`: the predicate is not evaluated
\* on an empty container, and its result is taken by truth value.
filter(h, self, predicate) ==
    IF is_empty(h, self)
    THEN ReturnRef(h, self, 0)
    ELSE LET r == Call(predicate, h[self].obj) IN
         IF r.kind = "raise"
         THEN Raises(h, r.exc, "callee", 1)
         ELSE IF r.val
              THEN ReturnRef(h, self, 1)
              ELSE [empty(h) EXCEPT !.calls = 1]

\* ------------------------------------------------------ fallbacks (l.87-134)
or_else(h, self, other_value) ==
    IF is_present(h, self)
    THEN ReturnValue(h, h[self].obj, 0)
    ELSE ReturnValue(h, other_value, 0)

\* or_else_get invoking the provider before it tests for presence.
or_else_get_eager(h, self, provider) ==
    LET r == CallNoArgs(provider) IN
    IF is_present(h, self)
    THEN ReturnValue(h, h[self].obj, 1)
    ELSE IF r.kind = "raise"
         THEN Raises(h, r.exc, "callee", 1)
         ELSE ReturnValue(h, r.val, 1)

or_else_get(h, self, provider) ==
    IF is_present(h, self)
    THEN ReturnValue(h, h[self].obj, 0)
    ELSE LET r == CallNoArgs(provider) IN
         IF r.kind = "raise"
         THEN Raises(h, r.exc, "callee", 1)
         ELSE ReturnValue(h, r.val, 1)

\* TypeError.__new__(*args): the built-in needs the class as first argument.
TypeError_new(args) ==
    IF Len(args) = 0
    THEN Raise(Exc("TypeError", "TypeError.__new__(): not enough arguments"))
    ELSE RetExc(Exc("TypeError", ""))

\* The default of the exception_provider parameter (l.118), as or_else_throw
\* invokes it at l.132: with no arguments.
DefaultExceptionProvider == TypeError_new(<<>>)

ExceptionProviders ==
    {RetExc(CustomError), Raise(CallbackError)} \cup {Ret(v) : v \in PyObjects}

\* `raise x`: x must be an exception.
raise_statement(h, x, n) ==
    IF x.exc # NoExc
    THEN Raises(h, x.exc, "statement", n)
    ELSE Raises(h, Exc("TypeError", "exceptions must derive from BaseException"),
                "statement", n)

or_else_throw(h, self, exception_provider) ==
    IF is_empty(h, self)
    THEN LET r == CallNoArgs(exception_provider) IN
         IF r.kind = "raise"
         THEN Raises(h, r.exc, "callee", 1)
         ELSE raise_statement(h, r, 1)
    ELSE ReturnValue(h, h[self].obj, 0)

\* ------------------------------------------------------------- the client
\* One action per call a client makes. `result` is the record of the last
\* call: the operation, its receiver and arguments, the number of instances
\* before it, and the call record without the heap.
Refs == 1..Len(heap)

NoCall ==
    [op |-> "none", self |-> NoRef, arg |-> None, fn |-> NoFn, pre |-> 0,
     kind |-> "return", val |-> None, bool |-> FALSE, ref |-> NoRef,
     exc |-> NoExc, origin |-> "", calls |-> 0]

LawOff ==
    [pc |-> "off", v |-> None, f |-> NoFn, g |-> NoFn,
     a |-> NoRef, b |-> NoRef, c |-> NoRef, a2 |-> NoRef, d |-> NoRef]

Record(op, self, arg, fn, out) ==
    /\ heap' = out.heap
    /\ result' = [op |-> op, self |-> self, arg |-> arg, fn |-> fn,
                  pre |-> Len(heap), kind |-> out.kind, val |-> out.val,
                  bool |-> out.bool, ref |-> out.ref, exc |-> out.exc,
                  origin |-> out.origin, calls |-> out.calls]

Init ==
    /\ heap = <<>>
    /\ result = NoCall
    /\ law = LawOff

Of(obj) ==
    /\ Len(heap) < MaxObjs
    /\ Record("of", NoRef, obj, NoFn, of(heap, obj))
    /\ UNCHANGED law

OfNullable(obj) ==
    /\ Len(heap) < MaxObjs
    /\ Record("of_nullable", NoRef, obj, NoFn, of_nullable(heap, obj))
    /\ UNCHANGED law

Empty ==
    /\ Len(heap) < MaxObjs
    /\ Record("empty", NoRef, None, NoFn, empty(heap))
    /\ UNCHANGED law

\* Optional(obj) written by the user.
DirectConstruct(obj) ==
    /\ Len(heap) < MaxObjs
    /\ Record("Optional", NoRef, obj, NoFn, ClassCall(heap, obj))
    /\ UNCHANGED law

\* o() on an instance o.
InstanceCall(self) ==
    /\ Record("__call__", self, None, NoFn, __call__(heap, self))
    /\ UNCHANGED law

PrivateCreate(self) ==
    /\ Record("_create", self, None, NoFn, _create(heap, self))
    /\ UNCHANGED law

Get(self) ==
    /\ Record("get", self, None, NoFn, get(heap, self))
    /\ UNCHANGED law

IsPresent(self) ==
    /\ Record("is_present", self, None, NoFn, ReturnBool(heap, is_present(heap, self)))
    /\ UNCHANGED law

IsEmpty(self) ==
    /\ Record("is_empty", self, None, NoFn, ReturnBool(heap, is_empty(heap, self)))
    /\ UNCHANGED law

IfPresent(self, consumer) ==
    /\ Record("if_present", self, None, consumer, if_present(heap, self, consumer))
    /\ UNCHANGED law

Map(self, function) ==
    /\ Len(heap) < MaxObjs
    /\ Record("map", self, None, function, map(heap, self, function))
    /\ UNCHANGED law

Filter(self, predicate) ==
    /\ Len(heap) < MaxObjs
    /\ Record("filter", self, None, predicate, filter(heap, self, predicate))
    /\ UNCHANGED law

OrElse(self, other_value) ==
    /\ Record("or_else", self, other_value, NoFn, or_else(heap, self, other_value))
    /\ UNCHANGED law

OrElseGet(self, provider) ==
    /\ Record("or_else_get", self, None, provider, or_else_get(heap, self, provider))
    /\ UNCHANGED law

OrElseThrow(self, exception_provider) ==
    /\ Record("or_else_throw", self, None, exception_provider,
              or_else_throw(heap, self, exception_provider))
    /\ UNCHANGED law

\* or_else_throw() with no argument: the parameter takes its default.
OrElseThrowDefault(self) ==
    /\ Record("or_else_throw()", self, None, DefaultExceptionProvider,
              or_else_throw(heap, self, DefaultExceptionProvider))
    /\ UNCHANGED law

Next ==
    \/ \E obj \in PyObjects : Of(obj)
    \/ \E obj \in PyObjects : OfNullable(obj)
    \/ Empty
    \/ \E obj \in PyObjects : DirectConstruct(obj)
    \/ \E self \in Refs : InstanceCall(self)
    \/ \E self \in Refs : PrivateCreate(self)
    \/ \E self \in Refs : Get(self)
    \/ \E self \in Refs : IsPresent(self)
    \/ \E self \in Refs : IsEmpty(self)
    \/ \E self \in Refs, consumer \in Consumers : IfPresent(self, consumer)
    \/ \E self \in Refs, function \in Functions : Map(self, function)
    \/ \E self \in Refs, predicate \in Predicates : Filter(self, predicate)
    \/ \E self \in Refs, other_value \in PyObjects : OrElse(self, other_value)
    \/ \E self \in Refs, provider \in Providers : OrElseGet(self, provider)
    \/ \E self \in Refs, p \in ExceptionProviders : OrElseThrow(self, p)
    \/ \E self \in Refs : OrElseThrowDefault(self)

Spec == Init /\ [][Next]_vars

\* ------------------------------------------------ the composition scenario
\* The program
\*     a = Optional.of(v); b = a.map(f); c = b.map(g)
\*     a2 = Optional.of(v); d = a2.map(compose(g, f))
\* for every v, f, g of the bounded sets. A call that raises ends it.
compose(g, f) ==
    [x \in Values |->
        LET r == Call(f, x) IN IF r.kind = "raise" THEN r ELSE Call(g, r.val)]

LawInit ==
    /\ heap = <<>>
    /\ result = NoCall
    /\ law \in {[LawOff EXCEPT !.pc = "of", !.v = v, !.f = f, !.g = g] :
                    v \in Values, f \in Functions, g \in Functions}

Goto(out, next) == IF out.kind = "raise" THEN "raised" ELSE next

LawOf ==
    /\ law.pc = "of"
    /\ LET out == of(heap, law.v) IN
         /\ Record("of", NoRef, law.v, NoFn, out)
         /\ law' = [law EXCEPT !.a = out.ref, !.pc = Goto(out, "map_f")]

LawMapF ==
    /\ law.pc = "map_f"
    /\ LET out == map(heap, law.a, law.f) IN
         /\ Record("map", law.a, None, law.f, out)
         /\ law' = [law EXCEPT !.b = out.ref, !.pc = Goto(out, "map_g")]

LawMapG ==
    /\ law.pc = "map_g"
    /\ LET out == map(heap, law.b, law.g) IN
         /\ Record("map", law.b, None, law.g, out)
         /\ law' = [law EXCEPT !.c = out.ref, !.pc = Goto(out, "of2")]

LawOf2 ==
    /\ law.pc = "of2"
    /\ LET out == of(heap, law.v) IN
         /\ Record("of", NoRef, law.v, NoFn, out)
         /\ law' = [law EXCEPT !.a2 = out.ref, !.pc = Goto(out, "map_gf")]

LawMapComposed ==
    /\ law.pc = "map_gf"
    /\ LET out == map(heap, law.a2, compose(law.g, law.f)) IN
         /\ Record("map", law.a2, None, compose(law.g, law.f), out)
         /\ law' = [law EXCEPT !.d = out.ref, !.pc = Goto(out, "done")]

LawNext == LawOf \/ LawMapF \/ LawMapG \/ LawOf2 \/ LawMapComposed

LawSpec == LawInit /\ [][LawNext]_vars

\* ------------------------------------------------------------ properties
Held == heap[result.self].obj

\* C1: a direct construction Optional(x), for any x, raises TypeError and
\* creates no instance.
C1_DirectConstructionRaises ==
    result.op = "Optional" =>
        /\ result.kind = "raise"
        /\ result.exc.cls = "TypeError"
        /\ Len(heap) = result.pre

\* C2: of(None) raises the construction-misuse error and creates no
\* container; of(x) for any other x returns a container c with
\* c.is_present() and c.get() = x.
C2_OfContract ==
    result.op = "of" =>
        IF result.arg = None
        THEN /\ result.kind = "raise"
             /\ result.exc.cls = "AttributeError"
             /\ result.origin = "statement"
             /\ Len(heap) = result.pre
        ELSE /\ result.kind = "return"
             /\ result.ref \in Refs
             /\ is_present(heap, result.ref)
             /\ get(heap, result.ref).kind = "return"
             /\ get(heap, result.ref).val = result.arg

C2_Witness ==
    /\ result.op = "of"
    /\ result.arg \in Values
    /\ result.kind = "return"
    /\ heap[result.ref].obj = result.arg

\* C3: the container empty() returns is not present, is empty, and get() on
\* it raises TypeError("Optional contains no object") and returns nothing.
C3_EmptyContract ==
    result.op = "empty" =>
        /\ result.kind = "return"
        /\ result.ref \in Refs
        /\ ~is_present(heap, result.ref)
        /\ is_empty(heap, result.ref)
        /\ get(heap, result.ref).kind = "raise"
        /\ get(heap, result.ref).exc = Exc("TypeError", "Optional contains no object")
        /\ get(heap, result.ref).origin = "statement"

C3_Witness ==
    /\ result.op = "empty"
    /\ result.kind = "return"
    /\ result.ref = Len(heap)
    /\ heap[result.ref].obj = None

\* C4: of_nullable(x) never raises; it returns an empty container for None
\* and a present container holding x otherwise.
C4_OfNullableContract ==
    result.op = "of_nullable" =>
        /\ result.kind = "return"
        /\ result.ref \in Refs
        /\ IF result.arg = None
           THEN is_empty(heap, result.ref)
           ELSE /\ is_present(heap, result.ref)
                /\ get(heap, result.ref).val = result.arg

C4_Witness ==
    /\ result.op = "of_nullable"
    /\ result.arg = None
    /\ result.kind = "return"
    /\ is_empty(heap, result.ref)

\* C5: map on a present container invokes fn exactly once, on the held
\* value, and returns a container holding fn's result, empty when that
\* result is None; map on an empty container returns an empty container
\* and invokes fn zero times.
C5_MapContract ==
    result.op = "map" =>
        IF Held # None
        THEN /\ result.calls = 1
             /\ result.fn[Held].kind = "return" =>
                  /\ result.kind = "return"
                  /\ result.ref \in Refs
                  /\ heap[result.ref].obj = result.fn[Held].val
                  /\ is_empty(heap, result.ref) <=> (result.fn[Held].val = None)
        ELSE /\ result.calls = 0
             /\ result.kind = "return"
             /\ result.ref \in Refs
             /\ is_empty(heap, result.ref)

C5_Witness ==
    /\ result.op = "map"
    /\ Held # None
    /\ result.fn[Held] = Ret(None)
    /\ result.calls = 1
    /\ is_empty(heap, result.ref)

\* C6: filter on an empty container returns that container; on a present
\* container whose value passes it returns the very same instance; on a
\* present container whose value fails it returns an empty container.
C6_FilterContract ==
    result.op = "filter" =>
        IF Held = None
        THEN result.kind = "return" /\ result.ref = result.self
        ELSE /\ result.fn[Held] = Ret(TRUE) =>
                  /\ result.kind = "return"
                  /\ result.ref = result.self
                  /\ Len(heap) = result.pre
             /\ result.fn[Held] = Ret(FALSE) =>
                  /\ result.kind = "return"
                  /\ result.ref \in Refs
                  /\ is_empty(heap, result.ref)

C6_Witness ==
    /\ result.op = "filter"
    /\ Held # None
    /\ result.fn[Held] = Ret(TRUE)
    /\ result.ref = result.self

\* C7: or_else_get invokes the supplier exactly once and returns its result
\* on an empty container, and invokes it zero times and returns the held
\* value on a present one.
C7_OrElseGetContract ==
    result.op = "or_else_get" =>
        IF Held = None
        THEN /\ result.calls = 1
             /\ result.fn.kind = "return" =>
                  result.kind = "return" /\ result.val = result.fn.val
        ELSE /\ result.calls = 0
             /\ result.kind = "return"
             /\ result.val = Held

C7_Witness ==
    /\ result.op = "or_else_get"
    /\ Held = None
    /\ result.fn.kind = "return"
    /\ result.fn.val \in Values
    /\ result.calls = 1
    /\ result.val = result.fn.val

\* C8: or_else_throw() with no supplier, on an empty container, raises an
\* error of the class get() raises there, built by the default supplier and
\* not the failure of the default supplier's own invocation; on a present
\* container it returns the held value.
C8_DefaultThrowContract ==
    result.op = "or_else_throw()" =>
        IF Held = None
        THEN /\ result.kind = "raise"
             /\ result.exc.cls = get(heap, result.self).exc.cls
             /\ result.origin = "statement"
        ELSE /\ result.kind = "return"
             /\ result.val = Held

\* C9: no call changes an existing container: every instance keeps its
\* _obj across every step, whether the call returns or raises; map, and a
\* filter whose predicate fails, return an instance that did not exist
\* before the call.
C9_Immutable ==
    [][ /\ \A id \in 1..Len(heap) : id <= Len(heap') /\ heap'[id] = heap[id]
        /\ (result'.op = "map" /\ result'.kind = "return")
              => result'.ref \notin 1..Len(heap)
        /\ ( /\ result'.op = "filter"
             /\ heap[result'.self].obj # None
             /\ result'.fn[heap[result'.self].obj] = Ret(FALSE) )
              => result'.ref \notin 1..Len(heap)
      ]_vars

C9_Witness ==
    /\ result.op = "filter"
    /\ result.kind = "return"
    /\ Held # None
    /\ result.ref # result.self
    /\ is_empty(heap, result.ref)

\* C10: when f(v) and g(f(v)) are not None, of(v).map(f).map(g) and
\* of(v).map(compose(g, f)) are both present and both hold g(f(v)).
LawDefined ==
    /\ law.f[law.v].kind = "return"
    /\ law.f[law.v].val # None
    /\ law.g[law.f[law.v].val].kind = "return"
    /\ law.g[law.f[law.v].val].val # None

C10_MapComposition ==
    (law.pc \in {"done", "raised"} /\ LawDefined) =>
        /\ law.pc = "done"
        /\ is_present(heap, law.c)
        /\ is_present(heap, law.d)
        /\ get(heap, law.c).val = law.g[law.f[law.v].val].val
        /\ get(heap, law.d).val = get(heap, law.c).val

C10_Witness ==
    /\ law.pc = "done"
    /\ LawDefined
    /\ law.g[law.f[law.v].val].val # law.v
    /\ heap[law.c].obj = heap[law.d].obj

====
